---- MODULE Spec2Model ----
(***************************************************************************)
(* A model of firego's Reference (type Firebase): address and path         *)
(* normalisation, child derivation and the copy of query parameters, the   *)
(* request executor doRequest, Push, the redirect hook and the dial hook   *)
(* of the default client.                                                  *)
(*                                                                         *)
(* Go strings that the code inspects character by character (addresses,    *)
(* path segments) are sequences of one-character strings.                  *)
(***************************************************************************)
EXTENDS Integers, Sequences, FiniteSets, TLC

VARIABLES
    uAddr,      \* SpecURL: the address A under test
    uOut,       \* SpecURL: per written form of A, the Reference New built and its String()
    pBase,      \* SpecPath: the slash-free, suffix-free path P
    pStr,       \* SpecPath: P with the decorations added so far
    pJson,      \* SpecPath: whether the .json suffix was added
    pOut,       \* SpecPath: the last sanitizePath call, [in, out], or NoCall
    cRoot,      \* SpecChild: the root Reference
    cRef,       \* SpecChild: the Reference derived so far
    cSegs,      \* SpecChild: the segments given to Child so far, in order
    refs,       \* SpecParams: the References p and c (c once derived)
    heap,       \* SpecParams: the backing arrays of the parameters' []string values
    lastOp,     \* SpecParams: the last operation and the Reference it was called on
    rqIn,       \* SpecReq: what the last doRequest call met (request build, transport reply)
    rqOut,      \* SpecReq: what the last doRequest call returned, and its client.Do count
    pushIn,     \* SpecReq: the Reference and value of the last Push call
    pushOut,    \* SpecReq: what the last Push call returned
    rdClient,   \* SpecRedirect: the client of the Reference issuing the request
    rdVia,      \* SpecRedirect: the requests made so far (their headers), oldest first
    rdReq,      \* SpecRedirect: the header of the upcoming request, after the hook ran
    rdErr,      \* SpecRedirect: what the redirect check returned on the last hop
    ResponseHeaderTimeout,  \* SpecDial: the field of the shared transport tr
    pc,         \* SpecDial: each request's position
    connect,    \* SpecDial: each request's own connect time
    deadline    \* SpecDial: the header-receipt deadline applied to each request

urlVars == <<uAddr, uOut>>
pathVars == <<pBase, pStr, pJson, pOut>>
childVars == <<cRoot, cRef, cSegs>>
paramVars == <<refs, heap, lastOp>>
reqVars == <<rqIn, rqOut, pushIn, pushOut>>
redirectVars == <<rdClient, rdVia, rdReq, rdErr>>
dialVars == <<ResponseHeaderTimeout, pc, connect, deadline>>
vars == <<urlVars, pathVars, childVars, paramVars, reqVars, redirectVars, dialVars>>

\* what the actions of one specification leave alone: the state of the others
notURL == <<pathVars, childVars, paramVars, reqVars, redirectVars, dialVars>>
notPath == <<urlVars, childVars, paramVars, reqVars, redirectVars, dialVars>>
notChild == <<urlVars, pathVars, paramVars, reqVars, redirectVars, dialVars>>
notParams == <<urlVars, pathVars, childVars, reqVars, redirectVars, dialVars>>
notReq == <<urlVars, pathVars, childVars, paramVars, redirectVars, dialVars>>
notRedirect == <<urlVars, pathVars, childVars, paramVars, reqVars, dialVars>>
notDial == <<urlVars, pathVars, childVars, paramVars, reqVars, redirectVars>>

\* no call made yet; the record of a call has called |-> TRUE
NoCall == [called |-> FALSE]

(***************************************************************************)
(* strings package                                                         *)
(***************************************************************************)
HasPrefix(s, prefix) ==
    /\ Len(s) >= Len(prefix)
    /\ SubSeq(s, 1, Len(prefix)) = prefix

HasSuffix(s, suffix) ==
    /\ Len(s) >= Len(suffix)
    /\ SubSeq(s, Len(s) - Len(suffix) + 1, Len(s)) = suffix

TrimSuffix(s, suffix) ==
    IF HasSuffix(s, suffix) THEN SubSeq(s, 1, Len(s) - Len(suffix)) ELSE s

RECURSIVE TrimLeft(_, _)
TrimLeft(s, c) ==
    IF Len(s) > 0 /\ Head(s) = c THEN TrimLeft(Tail(s), c) ELSE s

RECURSIVE TrimRight(_, _)
TrimRight(s, c) ==
    IF Len(s) > 0 /\ s[Len(s)] = c THEN TrimRight(SubSeq(s, 1, Len(s) - 1), c) ELSE s

\* strings.Trim with a one-character cutset
Trim(s, c) == TrimRight(TrimLeft(s, c), c)

\* strings.Contains
Contains(s, sub) ==
    \E i \in 1..(Len(s) - Len(sub) + 1) : SubSeq(s, i, i + Len(sub) - 1) = sub

\* all strings over alphabet of length at most n
StringsUpTo(alphabet, n) ==
    UNION {[1..k -> alphabet] : k \in 0..n}

Slash == <<"/">>
HttpsScheme == <<"h", "t", "t", "p", "s", ":", "/", "/">>
HttpScheme == <<"h", "t", "t", "p", ":", "/", "/">>
JsonSuffix == <<".", "j", "s", "o", "n">>
RenderSuffix == <<"/", ".", "j", "s", "o", "n">>

(***************************************************************************)
(* sanitizeURL, sanitizePath                                               *)
(***************************************************************************)
\* a plausible slip: the trailing slash is kept
sanitizeURL_keepSlash(url) ==
    IF ~HasPrefix(url, HttpsScheme) /\ ~HasPrefix(url, HttpScheme)
    THEN HttpsScheme \o url
    ELSE url

sanitizeURL(url) ==
    LET u1 == IF ~HasPrefix(url, HttpsScheme) /\ ~HasPrefix(url, HttpScheme)
              THEN HttpsScheme \o url
              ELSE url
    IN  IF HasSuffix(u1, Slash) THEN SubSeq(u1, 1, Len(u1) - 1) ELSE u1

sanitizePath(p) ==
    LET s1 == Trim(p, "/")
        s2 == TrimSuffix(s1, JsonSuffix)
    IN  TrimSuffix(s2, Slash)

(***************************************************************************)
(* Clients.  NilClient is the nil *http.Client; a client is the pair of    *)
(* its Transport and its CheckRedirect hook.                               *)
(***************************************************************************)
NilClient == [Transport |-> "nil", CheckRedirect |-> "nil"]

DefaultClient ==
    [Transport |-> "tr", CheckRedirect |-> "redirectPreserveHeaders"]

\* a client the caller built and passed to New: New leaves it as it is, and
\* redirectPreserveHeaders is not exported for the caller to install
CallerClients ==
    {[Transport |-> "caller", CheckRedirect |-> "none"]}

NoParams == <<>>

(***************************************************************************)
(* New, String                                                             *)
(***************************************************************************)
New(url, client) ==
    [url    |-> sanitizeURL(url),
     params |-> NoParams,
     client |-> IF client = NilClient THEN DefaultClient ELSE client]

\* the values a parameter's slice holds: the first len cells of its backing array
ValuesOf(sl, h) == SubSeq(h[sl.arr], 1, sl.len)

authParam == "auth"
shallowParam == "shallow"
ParamKeys == {authParam, shallowParam}
ParamValues == {"x", "y"}

\* the characters of a parameter name, and the names in url.Values.Encode's (sorted) order
KeyChars ==
    [auth |-> <<"a", "u", "t", "h">>, shallow |-> <<"s", "h", "a", "l", "l", "o", "w">>]
SortedKeys == <<authParam, shallowParam>>

\* "k=v1&k=v2" for one key; the values are single unreserved characters, which
\* QueryEscape leaves as they are
RECURSIVE EncodeKey(_, _)
EncodeKey(k, vals) ==
    IF vals = <<>> THEN <<>>
    ELSE KeyChars[k] \o <<"=">> \o <<Head(vals)>>
         \o (IF Tail(vals) = <<>> THEN <<>> ELSE <<"&">> \o EncodeKey(k, Tail(vals)))

RECURSIVE EncodeFrom(_, _, _)
EncodeFrom(params, h, i) ==
    IF i > Len(SortedKeys) THEN <<>>
    ELSE LET k    == SortedKeys[i]
             this == IF k \in DOMAIN params THEN EncodeKey(k, ValuesOf(params[k], h)) ELSE <<>>
             rest == EncodeFrom(params, h, i + 1)
         IN  IF this = <<>> THEN rest
             ELSE IF rest = <<>> THEN this
             ELSE this \o <<"&">> \o rest

Encode(params, h) == EncodeFrom(params, h, 1)

String(fb, h) ==
    LET path == fb.url \o RenderSuffix
    IN  IF Cardinality(DOMAIN fb.params) > 0
        THEN path \o <<"?">> \o Encode(fb.params, h)
        ELSE path

(***************************************************************************)
(* copy, Child                                                             *)
(***************************************************************************)
\* each map item is copied into a new map: the item is the slice header, so the
\* copy's slices share the original's backing arrays
copy(fb) ==
    [url    |-> fb.url,
     params |-> [k \in DOMAIN fb.params |-> fb.params[k]],
     client |-> fb.client]

Child(fb, child) ==
    LET c == copy(fb)
    IN  [c EXCEPT !.url = c.url \o Slash \o child]

EmptyHeap == <<>>

(***************************************************************************)
(* SpecURL: New on every written form of an address, and String            *)
(***************************************************************************)
MaxAddrLen == 3
AddrAlphabet == {"a", "/"}
Addresses == StringsUpTo(AddrAlphabet, MaxAddrLen)

Schemes == {"none", "https", "http"}
Forms == Schemes \X BOOLEAN

SchemePrefix(sch) ==
    CASE sch = "none"  -> <<>>
      [] sch = "https" -> HttpsScheme
      [] sch = "http"  -> HttpScheme

\* the address A as the caller writes it: with or without scheme, with or without trailing slash
Written(A, form) ==
    SchemePrefix(form[1]) \o A \o (IF form[2] THEN Slash ELSE <<>>)

\* fb := New(<A written in form f>, nil); fb.String()
NewRef(f) ==
    /\ ~uOut[f].called
    /\ LET fb == New(Written(uAddr, f), NilClient)
       IN  uOut' = [uOut EXCEPT ![f] = [called |-> TRUE, fb |-> fb,
                                        str |-> String(fb, EmptyHeap), again |-> NoCall]]
    /\ UNCHANGED <<uAddr, notURL>>

\* New on the address a Reference already holds
ReNew(f) ==
    /\ uOut[f].called
    /\ ~uOut[f].again.called
    /\ uOut' = [uOut EXCEPT ![f].again =
                    [called |-> TRUE, fb |-> New(uOut[f].fb.url, NilClient)]]
    /\ UNCHANGED <<uAddr, notURL>>

URLNext ==
    \/ \E f \in Forms : NewRef(f)
    \/ \E f \in Forms : ReNew(f)

(***************************************************************************)
(* SpecPath: sanitizePath on decorated paths                               *)
(***************************************************************************)
MaxBaseLen == 2
MaxSlashes == 3
PathAlphabet == {"a", "b"}
BasePaths == StringsUpTo(PathAlphabet, MaxBaseLen)

SlashesAdded == Len(pStr) - Len(pBase) - (IF pJson THEN Len(JsonSuffix) ELSE 0)

AddLeadingSlash ==
    /\ SlashesAdded < MaxSlashes
    /\ pStr' = Slash \o pStr
    /\ UNCHANGED <<pBase, pJson, pOut, notPath>>

AddTrailingSlash ==
    /\ SlashesAdded < MaxSlashes
    /\ pStr' = pStr \o Slash
    /\ UNCHANGED <<pBase, pJson, pOut, notPath>>

AddJsonSuffix ==
    /\ ~pJson
    /\ pStr' = pStr \o JsonSuffix
    /\ pJson' = TRUE
    /\ UNCHANGED <<pBase, pOut, notPath>>

SanitizePathCall ==
    /\ pOut' = [called |-> TRUE, in |-> pStr, out |-> sanitizePath(pStr)]
    /\ UNCHANGED <<pBase, pStr, pJson, notPath>>

PathNext ==
    \/ AddLeadingSlash
    \/ AddTrailingSlash
    \/ AddJsonSuffix
    \/ SanitizePathCall

(***************************************************************************)
(* SpecChild: repeated Child derivation from a root                        *)
(***************************************************************************)
MaxDepth == 3
RootAddresses == {<<"a">>, HttpScheme \o <<"a", "/">>}
Segments ==
    {<<"b">>, <<"/", "b">>, <<"b", "/">>, <<"b">> \o JsonSuffix, <<"/", "b", "/">>, <<"c">>}

ChildCall(seg) ==
    /\ Len(cSegs) < MaxDepth
    /\ cRef' = Child(cRef, seg)
    /\ cSegs' = Append(cSegs, seg)
    /\ UNCHANGED <<cRoot, notChild>>

ChildNext == \E seg \in Segments : ChildCall(seg)

(***************************************************************************)
(* SpecParams: a Reference p, its child c, and mutations of their query    *)
(* parameters.  params is a url.Values, a map from name to []string; a     *)
(* []string is a slice header [arr, len, cap] over a backing array in heap.*)
(***************************************************************************)
MaxArrays == 3
MaxSliceLen == 4
RefNames == {"p", "c"}
ZeroString == ""

\* the map with key k bound to slice header sl
WithKey(params, k, sl) ==
    [x \in (DOMAIN params) \cup {k} |-> IF x = k THEN sl ELSE params[x]]

\* a new backing array holding vals, of capacity cap
NewArray(vals, cap) ==
    [i \in 1..cap |-> IF i <= Len(vals) THEN vals[i] ELSE ZeroString]

\* url.Values.Set: v[key] = []string{value}
ValuesSet(params, h, k, v) ==
    [params |-> WithKey(params, k, [arr |-> Len(h) + 1, len |-> 1, cap |-> 1]),
     heap   |-> Append(h, NewArray(<<v>>, 1))]

\* url.Values.Add: v[key] = append(v[key], value).  append writes in place when
\* the slice has spare capacity, and otherwise moves to a new array of twice the
\* capacity (one cell for a nil slice)
ValuesAdd(params, h, k, v) ==
    IF k \notin DOMAIN params
    THEN [params |-> WithKey(params, k, [arr |-> Len(h) + 1, len |-> 1, cap |-> 1]),
          heap   |-> Append(h, NewArray(<<v>>, 1))]
    ELSE LET sl == params[k]
         IN  IF sl.len < sl.cap
             THEN [params |-> WithKey(params, k, [sl EXCEPT !.len = sl.len + 1]),
                   heap   |-> [h EXCEPT ![sl.arr][sl.len + 1] = v]]
             ELSE [params |-> WithKey(params, k,
                                  [arr |-> Len(h) + 1, len |-> sl.len + 1, cap |-> 2 * sl.cap]),
                   heap   |-> Append(h, NewArray(Append(ValuesOf(sl, h), v), 2 * sl.cap))]

\* url.Values.Del: delete(v, key)
ValuesDel(params, k) ==
    [x \in (DOMAIN params) \ {k} |-> params[x]]

\* params[key][i] = value: a stored value changed in place (i counts from 1)
ValuesStore(params, h, k, i, v) ==
    [h EXCEPT ![params[k].arr][i] = v]

\* whether ValuesAdd allocates
AddAllocates(params, k) ==
    k \notin DOMAIN params \/ params[k].len = params[k].cap

\* c := p.Child(seg)
DeriveChild(seg) ==
    /\ refs["p"].called
    /\ ~refs["c"].called
    /\ refs' = [refs EXCEPT !["c"] = [called |-> TRUE, fb |-> Child(refs["p"].fb, seg)]]
    /\ lastOp' = [op |-> "Child", ref |-> "p"]
    /\ UNCHANGED <<heap, notParams>>

SetParam(r, k, v) ==
    /\ refs[r].called
    /\ Len(heap) < MaxArrays
    /\ LET res == ValuesSet(refs[r].fb.params, heap, k, v)
       IN  /\ refs' = [refs EXCEPT ![r].fb.params = res.params]
           /\ heap' = res.heap
    /\ lastOp' = [op |-> "Set", ref |-> r]
    /\ UNCHANGED notParams

AddParam(r, k, v) ==
    /\ refs[r].called
    /\ AddAllocates(refs[r].fb.params, k) => Len(heap) < MaxArrays
    /\ k \in DOMAIN refs[r].fb.params => refs[r].fb.params[k].len < MaxSliceLen
    /\ LET res == ValuesAdd(refs[r].fb.params, heap, k, v)
       IN  /\ refs' = [refs EXCEPT ![r].fb.params = res.params]
           /\ heap' = res.heap
    /\ lastOp' = [op |-> "Add", ref |-> r]
    /\ UNCHANGED notParams

DelParam(r, k) ==
    /\ refs[r].called
    /\ k \in DOMAIN refs[r].fb.params
    /\ refs' = [refs EXCEPT ![r].fb.params = ValuesDel(refs[r].fb.params, k)]
    /\ lastOp' = [op |-> "Del", ref |-> r]
    /\ UNCHANGED <<heap, notParams>>

StoreParam(r, k, i, v) ==
    /\ refs[r].called
    /\ k \in DOMAIN refs[r].fb.params
    /\ i \in 1..refs[r].fb.params[k].len
    /\ heap' = ValuesStore(refs[r].fb.params, heap, k, i, v)
    /\ lastOp' = [op |-> "Store", ref |-> r]
    /\ UNCHANGED <<refs, notParams>>

ParamsNext ==
    \/ \E seg \in {<<"b">>} : DeriveChild(seg)
    \/ \E r \in RefNames, k \in ParamKeys, v \in ParamValues : SetParam(r, k, v)
    \/ \E r \in RefNames, k \in ParamKeys, v \in ParamValues : AddParam(r, k, v)
    \/ \E r \in RefNames, k \in ParamKeys : DelParam(r, k)
    \/ \E r \in RefNames, k \in ParamKeys, i \in 1..MaxSliceLen, v \in ParamValues :
          StoreParam(r, k, i, v)

\* a Reference's parameters as a caller reads them: name -> values
ParamsView(r) ==
    [k \in DOMAIN refs[r].fb.params |-> ValuesOf(refs[r].fb.params[k], heap)]

(***************************************************************************)
(* SpecReq: doRequest and Push.  What http.NewRequest, client.Do, the body *)
(* reader and encoding/json answer is the input of a call.                 *)
(***************************************************************************)
Nil == [type |-> "nil"]

\* a []byte value
Bytes(data) == [type |-> "bytes", data |-> data]

\* errors.New(text)
ErrorString(text) == [type |-> "errorString", text |-> text]

\* a value implementing net.Error (and not a *url.Error), with what its Timeout() reports
NetError(t) == [type |-> "netError", timeout |-> t]

\* &url.Error{Err: inner}
URLError(inner) == [type |-> "urlError", Err |-> inner]

\* ErrTimeout{err}
ErrTimeout(err) == [type |-> "ErrTimeout", error |-> err]

InnerErrors == {ErrorString("EOF")} \cup {NetError(t) : t \in BOOLEAN}
TransportErrors ==
    {ErrorString("connection refused")}
        \cup {NetError(t) : t \in BOOLEAN}
        \cup {URLError(e) : e \in InnerErrors}

MinStatus == 100
MaxStatus == 599
StatusCodes == MinStatus..MaxStatus

Bodies ==
    {"", "Permission denied", "{\"name\":\"K\"}", "{\"name\":\"\"}", "{}", "null",
     "{\"name\":1}"}

\* what reading resp.Body to its end returns
ReadErrors == {Nil, ErrorString("unexpected EOF")}

Responses ==
    [StatusCode : StatusCodes, Body : Bodies, readErr : ReadErrors]

\* what client.Do returns: (resp, nil) or (nil, err)
Replies ==
    {[err |-> Nil, resp |-> r] : r \in Responses}
        \cup {[err |-> e, resp |-> Nil] : e \in TransportErrors}

\* what makeRequest (http.NewRequest) returns as error
RequestErrors == {Nil, ErrorString("net/http: invalid method")}

\* the value is a net.Error
IsNetError(e) == e.type = "netError"

\* a plausible slip: the case of a net.Error returned directly is missing
doRequest_noNetErrorCase(reqErr, reply) ==
    IF reqErr # Nil
    THEN [body |-> Nil, err |-> reqErr, doCalls |-> 0]
    ELSE IF reply.err # Nil
    THEN IF reply.err.type = "urlError"
              /\ IsNetError(reply.err.Err) /\ reply.err.Err.timeout
         THEN [body |-> Nil, err |-> ErrTimeout(reply.err), doCalls |-> 1]
         ELSE [body |-> Nil, err |-> reply.err, doCalls |-> 1]
    ELSE IF reply.resp.readErr # Nil
    THEN [body |-> Nil, err |-> reply.resp.readErr, doCalls |-> 1]
    ELSE IF reply.resp.StatusCode \div 200 # 1
    THEN [body |-> Nil, err |-> ErrorString(reply.resp.Body), doCalls |-> 1]
    ELSE [body |-> Bytes(reply.resp.Body), err |-> Nil, doCalls |-> 1]

\* doRequest: (body, err), and how many times it invoked client.Do
doRequest(reqErr, reply) ==
    IF reqErr # Nil
    THEN [body |-> Nil, err |-> reqErr, doCalls |-> 0]
    ELSE IF reply.err # Nil
    THEN CASE reply.err.type = "urlError" ->
                IF IsNetError(reply.err.Err) /\ reply.err.Err.timeout
                THEN [body |-> Nil, err |-> ErrTimeout(reply.err), doCalls |-> 1]
                ELSE [body |-> Nil, err |-> reply.err, doCalls |-> 1]
           [] reply.err.type = "netError" ->
                IF reply.err.timeout
                THEN [body |-> Nil, err |-> ErrTimeout(reply.err), doCalls |-> 1]
                ELSE [body |-> Nil, err |-> reply.err, doCalls |-> 1]
           [] OTHER ->
                [body |-> Nil, err |-> reply.err, doCalls |-> 1]
    ELSE IF reply.resp.readErr # Nil
    THEN [body |-> Nil, err |-> reply.resp.readErr, doCalls |-> 1]
    ELSE IF reply.resp.StatusCode \div 200 # 1
    THEN [body |-> Nil, err |-> ErrorString(reply.resp.Body), doCalls |-> 1]
    ELSE [body |-> Bytes(reply.resp.Body), err |-> Nil, doCalls |-> 1]

\* json.Unmarshal(bytes, &m) with m a map[string]string: the error and the map
Unmarshal(data) ==
    CASE data = "{\"name\":\"K\"}" -> [err |-> Nil, m |-> [name |-> <<"K">>]]
      [] data = "{\"name\":\"\"}"  -> [err |-> Nil, m |-> [name |-> <<>>]]
      [] data = "{}"               -> [err |-> Nil, m |-> <<>>]
      [] data = "null"             -> [err |-> Nil, m |-> <<>>]
      [] data = "{\"name\":1}"     -> [err |-> ErrorString("json: cannot unmarshal number"),
                                       m |-> <<>>]
      [] OTHER                     -> [err |-> ErrorString("json: syntax error"), m |-> <<>>]

\* m[key] of a map[string]string: the zero string for a missing key
MapGet(m, key) == IF key \in DOMAIN m THEN m[key] ELSE <<>>

\* what json.Marshal(v) returns as error
MarshalErrors == {Nil, ErrorString("json: unsupported type")}

\* Push: (reference, err)
Push(fb, marshalErr, reqErr, reply) ==
    IF marshalErr # Nil
    THEN [ref |-> Nil, err |-> marshalErr]
    ELSE LET r == doRequest(reqErr, reply)
         IN  IF r.err # Nil
             THEN [ref |-> Nil, err |-> r.err]
             ELSE LET u == Unmarshal(r.body.data)
                  IN  IF u.err # Nil
                      THEN [ref |-> Nil, err |-> u.err]
                      ELSE [ref |-> [type   |-> "Firebase",
                                     repo   |-> fb.repo,
                                     path   |-> fb.path \o Slash \o MapGet(u.m, "name"),
                                     client |-> fb.client],
                            err |-> r.err]

\* the References Push is called on
PushRefs ==
    {[type |-> "Firebase", repo |-> "repo", path |-> p, client |-> DefaultClient] :
        p \in {<<>>, <<"/", "u">>}}

\* doRequest and Push keep no state between calls: a behaviour is one call
DoRequestCall ==
    /\ ~rqIn.called /\ ~pushIn.called
    /\ \E reqErr \in RequestErrors, reply \in Replies :
          /\ rqIn' = [called |-> TRUE, reqErr |-> reqErr, reply |-> reply]
          /\ rqOut' = [called |-> TRUE] @@ doRequest(reqErr, reply)
    /\ UNCHANGED <<pushIn, pushOut, notReq>>

\* fb.Push(v); the doRequest call it makes is recorded as well
PushCall ==
    /\ ~rqIn.called /\ ~pushIn.called
    /\ \E fb \in PushRefs, marshalErr \in MarshalErrors, reqErr \in RequestErrors,
          reply \in Replies :
          /\ pushIn' = [called |-> TRUE, fb |-> fb, marshalErr |-> marshalErr]
          /\ pushOut' = [called |-> TRUE] @@ Push(fb, marshalErr, reqErr, reply)
          /\ IF marshalErr = Nil
             THEN /\ rqIn' = [called |-> TRUE, reqErr |-> reqErr, reply |-> reply]
                  /\ rqOut' = [called |-> TRUE] @@ doRequest(reqErr, reply)
             ELSE UNCHANGED <<rqIn, rqOut>>
    /\ UNCHANGED notReq

ReqNext ==
    \/ DoRequestCall
    \/ PushCall

(***************************************************************************)
(* SpecRedirect: a request answered by a chain of redirects.  net/http     *)
(* builds each redirected request and runs the client's CheckRedirect hook *)
(* with it and the requests made so far (via); a header is name -> value.  *)
(***************************************************************************)
defaultRedirectLimit == 30
MaxHops == 32
HeaderKeys == {"Authorization", "Accept"}
HeaderValues == {"v1", "v2"}
Headers == UNION {[ks -> HeaderValues] : ks \in SUBSET HeaderKeys}

\* fmt.Errorf("%d consecutive requests(redirects)", n)
RedirectError(n) == [type |-> "redirects", n |-> n]

\* a plausible slip: the bound compared with >= (one hop too few)
redirectPreserveHeaders_offByOne(header, via) ==
    IF Len(via) = 0
    THEN [err |-> Nil, header |-> header]
    ELSE IF Len(via) >= defaultRedirectLimit
    THEN [err |-> RedirectError(Len(via)), header |-> header]
    ELSE [err    |-> Nil,
          header |-> [k \in (DOMAIN header) \cup (DOMAIN via[1]) |->
                         IF k \in DOMAIN via[1] THEN via[1][k] ELSE header[k]]]

\* redirectPreserveHeaders(req, via): the error returned and req.Header afterwards
redirectPreserveHeaders(header, via) ==
    IF Len(via) = 0
    THEN [err |-> Nil, header |-> header]
    ELSE IF Len(via) > defaultRedirectLimit
    THEN [err |-> RedirectError(Len(via)), header |-> header]
    ELSE [err    |-> Nil,
          header |-> [k \in (DOMAIN header) \cup (DOMAIN via[1]) |->
                         IF k \in DOMAIN via[1] THEN via[1][k] ELSE header[k]]]

\* the hook of the client: the default client of New has redirectPreserveHeaders;
\* a client with no hook gets net/http's own check, which stops after 10 requests
\* and leaves the header as net/http built it
CheckRedirect(client, header, via) ==
    IF client.CheckRedirect = "redirectPreserveHeaders"
    THEN redirectPreserveHeaders(header, via)
    ELSE IF Len(via) >= 10
    THEN [err |-> ErrorString("stopped after 10 redirects"), header |-> header]
    ELSE [err |-> Nil, header |-> header]

\* the header net/http gives the redirected request before the hook runs: the
\* original's headers (newer releases) or none of them (older releases)
BuiltHeaders(orig) == {orig, <<>>}

\* the server answers the last request with a redirect; net/http builds the next
\* request, runs the hook, and sends the request if the hook allows it
FollowRedirect ==
    /\ rdErr = Nil
    /\ Len(rdVia) <= MaxHops
    /\ \E built \in BuiltHeaders(rdVia[1]) :
          LET res == CheckRedirect(rdClient, built, rdVia)
          IN  /\ rdReq' = [called |-> TRUE, hop |-> Len(rdVia), built |-> built,
                           header |-> res.header]
              /\ rdErr' = res.err
              /\ rdVia' = IF res.err = Nil THEN Append(rdVia, res.header) ELSE rdVia
    /\ UNCHANGED <<rdClient, notRedirect>>

RedirectNext == FollowRedirect

(***************************************************************************)
(* SpecDial: requests through the default client of New.  Keep-alives are  *)
(* disabled, so every request dials; the Dial hook stores the time left    *)
(* for the headers in tr.ResponseHeaderTimeout, a field of the one         *)
(* transport all requests share, and each request reads the field when it  *)
(* starts waiting for headers.  Times are in seconds.                      *)
(***************************************************************************)
TimeoutDuration == 30
NumRequests == 2
Requests == 1..NumRequests
ConnectTimes == {0, 10, 20, 30}

\* the Dial hook of request r: net.DialTimeout takes d, then the field is written.
\* A dial that used up TimeoutDuration has failed, and the request ends there
Dial(r, d) ==
    /\ pc[r] = "idle"
    /\ ResponseHeaderTimeout' = TimeoutDuration - d
    /\ IF d < TimeoutDuration
       THEN /\ connect' = [connect EXCEPT ![r] = d]
            /\ pc' = [pc EXCEPT ![r] = "dialed"]
       ELSE UNCHANGED <<connect, pc>>
    /\ UNCHANGED <<deadline, notDial>>

\* the values an unsynchronised read of the field by request r can return: the
\* field as last written, or the value another request in flight wrote
FieldReads(r) ==
    {ResponseHeaderTimeout}
        \cup {TimeoutDuration - connect[q] : q \in {x \in Requests : x # r /\ pc[x] # "idle"}}

\* request r has written its request and starts the header timer from the field
AwaitHeaders(r) ==
    /\ pc[r] = "dialed"
    /\ \E t \in FieldReads(r) : deadline' = [deadline EXCEPT ![r] = t]
    /\ pc' = [pc EXCEPT ![r] = "waiting"]
    /\ UNCHANGED <<ResponseHeaderTimeout, connect, notDial>>

\* the headers arrive or the timer fires: the request is over
Finish(r) ==
    /\ pc[r] = "waiting"
    /\ pc' = [pc EXCEPT ![r] = "idle"]
    /\ connect' = [connect EXCEPT ![r] = 0]
    /\ deadline' = [deadline EXCEPT ![r] = 0]
    /\ UNCHANGED <<ResponseHeaderTimeout, notDial>>

DialNext ==
    \/ \E r \in Requests, d \in ConnectTimes : Dial(r, d)
    \/ \E r \in Requests : AwaitHeaders(r)
    \/ \E r \in Requests : Finish(r)

(***************************************************************************)
(* Specifications: one per part of the program; the other parts stay idle  *)
(***************************************************************************)
URLInit ==
    /\ uAddr \in Addresses
    /\ uOut = [f \in Forms |-> NoCall]
    /\ pBase = <<>> /\ pStr = <<>> /\ pJson = FALSE /\ pOut = NoCall
    /\ cRoot = NoCall /\ cRef = NoCall /\ cSegs = <<>>
    /\ refs = <<>> /\ heap = <<>> /\ lastOp = NoCall
    /\ rqIn = NoCall /\ rqOut = NoCall /\ pushIn = NoCall /\ pushOut = NoCall
    /\ rdClient = NoCall /\ rdVia = <<>> /\ rdReq = NoCall /\ rdErr = NoCall
    /\ ResponseHeaderTimeout = 0 /\ pc = <<>> /\ connect = <<>> /\ deadline = <<>>

PathInit ==
    /\ pBase \in BasePaths
    /\ pStr = pBase
    /\ pJson = FALSE
    /\ pOut = NoCall
    /\ uAddr = <<>> /\ uOut = <<>>
    /\ cRoot = NoCall /\ cRef = NoCall /\ cSegs = <<>>
    /\ refs = <<>> /\ heap = <<>> /\ lastOp = NoCall
    /\ rqIn = NoCall /\ rqOut = NoCall /\ pushIn = NoCall /\ pushOut = NoCall
    /\ rdClient = NoCall /\ rdVia = <<>> /\ rdReq = NoCall /\ rdErr = NoCall
    /\ ResponseHeaderTimeout = 0 /\ pc = <<>> /\ connect = <<>> /\ deadline = <<>>

ChildInit ==
    /\ cRoot \in {New(a, NilClient) : a \in RootAddresses}
    /\ cRef = cRoot
    /\ cSegs = <<>>
    /\ uAddr = <<>> /\ uOut = <<>>
    /\ pBase = <<>> /\ pStr = <<>> /\ pJson = FALSE /\ pOut = NoCall
    /\ refs = <<>> /\ heap = <<>> /\ lastOp = NoCall
    /\ rqIn = NoCall /\ rqOut = NoCall /\ pushIn = NoCall /\ pushOut = NoCall
    /\ rdClient = NoCall /\ rdVia = <<>> /\ rdReq = NoCall /\ rdErr = NoCall
    /\ ResponseHeaderTimeout = 0 /\ pc = <<>> /\ connect = <<>> /\ deadline = <<>>

\* p := New("a", client), with no parameters yet
ParamsInit ==
    /\ refs \in {[r \in RefNames |-> IF r = "p" THEN [called |-> TRUE, fb |-> New(<<"a">>, cl)]
                                     ELSE NoCall] : cl \in {NilClient}}
    /\ heap = EmptyHeap
    /\ lastOp = [op |-> "New", ref |-> "p"]
    /\ uAddr = <<>> /\ uOut = <<>>
    /\ pBase = <<>> /\ pStr = <<>> /\ pJson = FALSE /\ pOut = NoCall
    /\ cRoot = NoCall /\ cRef = NoCall /\ cSegs = <<>>
    /\ rqIn = NoCall /\ rqOut = NoCall /\ pushIn = NoCall /\ pushOut = NoCall
    /\ rdClient = NoCall /\ rdVia = <<>> /\ rdReq = NoCall /\ rdErr = NoCall
    /\ ResponseHeaderTimeout = 0 /\ pc = <<>> /\ connect = <<>> /\ deadline = <<>>

ReqInit ==
    /\ rqIn = NoCall /\ rqOut = NoCall /\ pushIn = NoCall /\ pushOut = NoCall
    /\ uAddr = <<>> /\ uOut = <<>>
    /\ pBase = <<>> /\ pStr = <<>> /\ pJson = FALSE /\ pOut = NoCall
    /\ cRoot = NoCall /\ cRef = NoCall /\ cSegs = <<>>
    /\ refs = <<>> /\ heap = <<>> /\ lastOp = NoCall
    /\ rdClient = NoCall /\ rdVia = <<>> /\ rdReq = NoCall /\ rdErr = NoCall
    /\ ResponseHeaderTimeout = 0 /\ pc = <<>> /\ connect = <<>> /\ deadline = <<>>

\* the Reference's client is the one New gives it; the first request has been sent
RedirectInit ==
    /\ rdClient \in {New(<<"a">>, cl).client : cl \in {NilClient} \cup CallerClients}
    /\ rdVia \in {<<h>> : h \in Headers}
    /\ rdReq = NoCall
    /\ rdErr = Nil
    /\ uAddr = <<>> /\ uOut = <<>>
    /\ pBase = <<>> /\ pStr = <<>> /\ pJson = FALSE /\ pOut = NoCall
    /\ cRoot = NoCall /\ cRef = NoCall /\ cSegs = <<>>
    /\ refs = <<>> /\ heap = <<>> /\ lastOp = NoCall
    /\ rqIn = NoCall /\ rqOut = NoCall /\ pushIn = NoCall /\ pushOut = NoCall
    /\ ResponseHeaderTimeout = 0 /\ pc = <<>> /\ connect = <<>> /\ deadline = <<>>

\* no request in flight; the field has its zero value
DialInit ==
    /\ ResponseHeaderTimeout = 0
    /\ pc = [r \in Requests |-> "idle"]
    /\ connect = [r \in Requests |-> 0]
    /\ deadline = [r \in Requests |-> 0]
    /\ uAddr = <<>> /\ uOut = <<>>
    /\ pBase = <<>> /\ pStr = <<>> /\ pJson = FALSE /\ pOut = NoCall
    /\ cRoot = NoCall /\ cRef = NoCall /\ cSegs = <<>>
    /\ refs = <<>> /\ heap = <<>> /\ lastOp = NoCall
    /\ rqIn = NoCall /\ rqOut = NoCall /\ pushIn = NoCall /\ pushOut = NoCall
    /\ rdClient = NoCall /\ rdVia = <<>> /\ rdReq = NoCall /\ rdErr = NoCall

SpecURL == URLInit /\ [][URLNext]_vars

SpecPath == PathInit /\ [][PathNext]_vars

SpecChild == ChildInit /\ [][ChildNext]_vars

SpecParams == ParamsInit /\ [][ParamsNext]_vars

SpecReq == ReqInit /\ [][ReqNext]_vars

SpecRedirect == RedirectInit /\ [][RedirectNext]_vars

SpecDial == DialInit /\ [][DialNext]_vars

(***************************************************************************)
(* Address rendering (C7)                                                  *)
(***************************************************************************)
\* the scheme New gives an address written in the given form
EffectiveScheme(sch) == IF sch = "http" THEN HttpScheme ELSE HttpsScheme

\* a non-empty address with no scheme prefix of its own and no trailing slash
CleanAddress(A) ==
    /\ A # <<>>
    /\ ~HasSuffix(A, Slash)
    /\ ~HasPrefix(A, HttpsScheme)
    /\ ~HasPrefix(A, HttpScheme)

\* C7 as stated: for every address A, all written forms of A (with or without a
\* scheme prefix, with or without a trailing slash) render to one identical URL
\* <scheme>://<A>/.json, and normalising a normalised address changes nothing.
C7_AllFormsRenderIdentically ==
    \A f \in Forms : uOut[f].called =>
        /\ \A g \in Forms : uOut[g].called => uOut[g].str = uOut[f].str
        /\ uOut[f].str \in {sch \o uAddr \o RenderSuffix : sch \in {HttpsScheme, HttpScheme}}
        /\ uOut[f].again.called => uOut[f].again.fb.url = uOut[f].fb.url

\* C7 amended: for every non-empty address A with no scheme prefix and no trailing
\* slash, the forms A, A/, https://A, https://A/ all render to https://A/.json, the
\* forms http://A, http://A/ both render to http://A/.json, and New on the address
\* any of these References holds gives that same address.
C7_CleanFormsRenderCanonically ==
    CleanAddress(uAddr) =>
        \A f \in Forms : uOut[f].called =>
            /\ uOut[f].str = EffectiveScheme(f[1]) \o uAddr \o RenderSuffix
            /\ uOut[f].again.called => uOut[f].again.fb = uOut[f].fb

C7_Witness ==
    /\ CleanAddress(uAddr)
    /\ \A f \in Forms : uOut[f].called /\ uOut[f].again.called
    /\ uOut[<<"none", TRUE>>].str = uOut[<<"https", FALSE>>].str

(***************************************************************************)
(* Path normalisation (C6)                                                 *)
(***************************************************************************)
\* C6: for every slash-free, suffix-free P and every string made from P by adding
\* leading slashes, trailing slashes and a .json suffix in any order,
\* sanitizePath returns exactly P.
C6_SanitizePathReturnsBase ==
    pOut.called => pOut.out = pBase

(***************************************************************************)
(* Child derivation (C5)                                                   *)
(***************************************************************************)
AfterScheme(url) ==
    IF HasPrefix(url, HttpsScheme) THEN SubSeq(url, Len(HttpsScheme) + 1, Len(url))
    ELSE IF HasPrefix(url, HttpScheme) THEN SubSeq(url, Len(HttpScheme) + 1, Len(url))
    ELSE url

RECURSIVE DeriveClean(_, _)
DeriveClean(fb, segs) ==
    IF segs = <<>> THEN fb
    ELSE DeriveClean(Child(fb, sanitizePath(Head(segs))), Tail(segs))

\* C5: after any sequence of Child derivations from a root, with segments that may
\* carry leading or trailing slashes or a .json suffix, the address has no "//"
\* after the scheme and equals the address derived with the slash-free,
\* suffix-free form of each segment.
C5_ChildNeverDuplicatesSeparators ==
    /\ ~Contains(AfterScheme(cRef.url), <<"/", "/">>)
    /\ cRef.url = DeriveClean(cRoot, cSegs).url

(***************************************************************************)
(* Independence of a child's parameters (C4)                               *)
(***************************************************************************)
\* C4: Child leaves p's address and parameters unchanged, and afterwards no
\* mutation of one Reference's parameters (set, add, delete, change of a stored
\* value) changes the parameters of the other Reference.
C4_ChildParamsIndependent ==
    [][/\ lastOp'.op = "Child" =>
            /\ refs'["p"] = refs["p"]
            /\ ParamsView("p")' = ParamsView("p")
       /\ \A r \in RefNames :
            (/\ lastOp'.op \in {"Set", "Add", "Del", "Store"}
             /\ lastOp'.ref # r
             /\ refs[r].called)
            => /\ refs'[r].called
               /\ ParamsView(r)' = ParamsView(r)]_vars

(***************************************************************************)
(* The request executor (C1, C2, C9) and Push (C8)                         *)
(***************************************************************************)
\* the last doRequest call built its request and got a response it read to the end
ResponseRead ==
    /\ rqOut.called
    /\ rqIn.reqErr = Nil
    /\ rqIn.reply.err = Nil
    /\ rqIn.reply.resp.readErr = Nil

\* success by status: 200..299
SuccessStatus(code) == code >= 200 /\ code <= 299

\* C1: for a response received without transport or body-read error, a status in
\* 200..299 returns the body verbatim and no error, and every other status
\* returns no body and an error whose text is exactly the response body.
C1_StatusDecidesOutcome ==
    ResponseRead =>
        IF SuccessStatus(rqIn.reply.resp.StatusCode)
        THEN rqOut.body = Bytes(rqIn.reply.resp.Body) /\ rqOut.err = Nil
        ELSE rqOut.body = Nil /\ rqOut.err = ErrorString(rqIn.reply.resp.Body)

\* the error reports a network timeout through one of the transport's surfaces: a
\* URL error wrapping a timed-out network error, or a timed-out network error itself
ReportsTimeout(e) ==
    \/ e.type = "urlError" /\ e.Err.type = "netError" /\ e.Err.timeout
    \/ e.type = "netError" /\ e.timeout

\* the last doRequest call got an error from the transport client
TransportFailed ==
    /\ rqOut.called
    /\ rqIn.reqErr = Nil
    /\ rqIn.reply.err # Nil

\* C2: an error of the transport client that reports a network timeout is returned
\* as ErrTimeout wrapping it; any other transport error is returned unchanged,
\* never as ErrTimeout; no body is returned in either case.
C2_TimeoutsBecomeErrTimeout ==
    TransportFailed =>
        /\ rqOut.body = Nil
        /\ IF ReportsTimeout(rqIn.reply.err)
           THEN rqOut.err = ErrTimeout(rqIn.reply.err)
           ELSE rqOut.err = rqIn.reply.err /\ rqOut.err.type # "ErrTimeout"

C2_Witness ==
    /\ TransportFailed
    /\ rqIn.reply.err = NetError(TRUE)
    /\ rqOut.err = ErrTimeout(NetError(TRUE))
    /\ rqOut.body = Nil

\* a step of the last doRequest call failed: building the request, the transport
\* call, reading the body, or a status outside 200..299
StepFailed ==
    \/ rqIn.reqErr # Nil
    \/ rqIn.reply.err # Nil
    \/ rqIn.reply.resp.readErr # Nil
    \/ ~SuccessStatus(rqIn.reply.resp.StatusCode)

\* C9: every doRequest call ends with (body, no error) or (no body, error); a
\* failure at any step gives the error outcome; client.Do runs at most once.
C9_OneOutcomeNoErrorDropped ==
    rqOut.called =>
        /\ \/ rqOut.body # Nil /\ rqOut.err = Nil
           \/ rqOut.body = Nil /\ rqOut.err # Nil
        /\ StepFailed => rqOut.body = Nil /\ rqOut.err # Nil
        /\ rqOut.doCalls <= 1

\* the last Push call serialised its value, its request succeeded (a response with
\* a status in 200..299, read to the end) and the response decoded
PushSucceeded ==
    /\ pushIn.marshalErr = Nil
    /\ ~StepFailed
    /\ Unmarshal(rqIn.reply.resp.Body).err = Nil

\* C8: a Push whose request succeeds returns a child Reference addressing p's
\* address, "/" and the non-empty key the response carries under name, sharing p's
\* client; a Push whose serialisation, request or decoding fails returns an error
\* and no Reference.
C8_PushReturnsChildAtKey ==
    pushOut.called =>
        IF PushSucceeded
        THEN LET key == MapGet(Unmarshal(rqIn.reply.resp.Body).m, "name")
             IN  /\ pushOut.err = Nil
                 /\ pushOut.ref # Nil
                 /\ key # <<>>
                 /\ pushOut.ref.path = pushIn.fb.path \o Slash \o key
                 /\ pushOut.ref.client = pushIn.fb.client
        ELSE pushOut.ref = Nil /\ pushOut.err # Nil

(***************************************************************************)
(* Redirects (C3)                                                          *)
(***************************************************************************)
\* on the last hop the redirected request carries every header of the first
\* request with its value and was allowed if the hop is within the bound, and
\* the check returned an error if the hop is beyond it
HopWithinPolicy ==
    IF rdReq.hop <= defaultRedirectLimit
    THEN /\ rdErr = Nil
         /\ \A k \in DOMAIN rdVia[1] :
               k \in DOMAIN rdReq.header /\ rdReq.header[k] = rdVia[1][k]
    ELSE rdErr # Nil

\* C3 as stated: for every request issued through a Reference, hops 1..30 are
\* allowed and carry the original's headers, and a hop beyond 30 is an error.
C3_EveryReferencePreservesHeaders ==
    rdReq.called => HopWithinPolicy

\* C3 amended: the same, for every request issued through a Reference that holds
\* the default client New builds when it is given no client.
C3_DefaultClientPreservesHeaders ==
    (rdReq.called /\ rdClient = DefaultClient) => HopWithinPolicy

C3_Witness ==
    /\ rdClient = DefaultClient
    /\ rdReq.called
    /\ rdReq.hop = defaultRedirectLimit
    /\ DOMAIN rdVia[1] = HeaderKeys
    /\ rdReq.built = <<>>
    /\ rdReq.header = rdVia[1]
    /\ rdErr = Nil

(***************************************************************************)
(* The time a request has for connecting and receiving headers (C10)       *)
(***************************************************************************)
\* C10: under every interleaving of the requests' dial and header-wait steps, the
\* header-receipt deadline applied to a request is TimeoutDuration minus that
\* request's own connect time, so connecting and receiving headers take at most
\* TimeoutDuration together.
C10_DeadlineIsOwnRemainder ==
    \A r \in Requests : pc[r] = "waiting" =>
        /\ deadline[r] = TimeoutDuration - connect[r]
        /\ connect[r] + deadline[r] <= TimeoutDuration

====
